---------------------------- MODULE Spec2Model ----------------------------
(* A model of tableimage: the run-length row extractor                    *)
(* (data.PixelAccess.getcontiguousrows), the palette aggregation          *)
(* (_to_palette), the n-ary prefix-code assigner (_encoding), the colour  *)
(* formatter (rgb_to_html) and the markup emitter (rowlist_to_html_css).  *)
(*                                                                        *)
(* Python values are represented as follows.                              *)
(*   str            a sequence of one-character strings ("" is << >>)     *)
(*   RGB tuple      a sequence of three integers                          *)
(*   None (colour)  the empty tuple << >>, distinct from every RGB tuple  *)
(*   RowDivider()   the tuple <<"RowDivider">>                            *)
(*   (count, col)   the tuple <<count, col>>                              *)
(*   dict           the sequence of its <<key, value>> items in insertion *)
(*                  order                                                 *)
(*   list-or-None   a record [none, items]                                *)
EXTENDS Integers, Sequences, FiniteSets, TLC

\* ------------------------------------------------------------------ bounds
MaxWidth == 3
MaxHeight == 2
MaxItems == 4
MaxCount == 2
MaxKeys == 3
MaxWeight == 2
MaxAlphabetLen == 3

\* The colours the pixel surfaces and run sequences are drawn from.
Colour == {<<255, 255, 255>>, <<255, 0, 84>>}
\* The keys of the weight tables handed to _encoding directly.
KeyColour == Colour \cup {<<0, 0, 0>>}
\* The channel values rgb_to_html is applied to.
Channel == {-5, 0, 10, 17, 84, 255, 260}
\* The symbols the alphabets handed to _encoding directly are drawn from.
Symbol == {"0", "1"}
\* The pixel sizes rowlist_to_html_css is called with (3 is the default).
PixelSize == {1, 3}

VARIABLES pc, exc, caller,
          size, pixels, y, x, curr_colour, pixel_count, result,
          rowlist, no_css, pixel_size, count, palette, page_rows,
          html, css, table_unique_id,
          alphabet, queue, nodes, leaf_nodes, mapping,
          colour, htmlcolour

vars == <<pc, exc, caller,
          size, pixels, y, x, curr_colour, pixel_count, result,
          rowlist, no_css, pixel_size, count, palette, page_rows,
          html, css, table_unique_id,
          alphabet, queue, nodes, leaf_nodes, mapping,
          colour, htmlcolour>>

gcrVars == <<size, pixels, y, x, curr_colour, pixel_count, result>>
htmlVars == <<rowlist, no_css, pixel_size, count, palette, page_rows,
              html, css, table_unique_id>>
encVars == <<alphabet, queue, nodes, leaf_nodes, mapping>>
rgbVars == <<colour, htmlcolour>>

\* ------------------------------------------------------- Python values
None == << >>
RowDivider == <<"RowDivider">>
IsRowDivider(item) == Len(item) = 1
PyNone == [none |-> TRUE, items |-> << >>]
PyList(s) == [none |-> FALSE, items |-> s]

RECURSIVE SumSeq(_)
SumSeq(s) == IF s = << >> THEN 0 ELSE s[1] + SumSeq(Tail(s))

RECURSIVE Concat(_)
Concat(ss) == IF ss = << >> THEN << >> ELSE ss[1] \o Concat(Tail(ss))

\* The items of a dict: keys, lookup, and insertion or update in place.
Keys(d) == {d[i][1] : i \in 1..Len(d)}
Get(d, k) == d[CHOOSE i \in 1..Len(d) : d[i][1] = k][2]
Put(d, k, v) ==
    IF k \in Keys(d)
    THEN [i \in 1..Len(d) |-> IF d[i][1] = k THEN <<k, v>> ELSE d[i]]
    ELSE Append(d, <<k, v>>)

\* ------------------------------------------------ data.py: PixelAccess
getsize == size
getpixel(px, py) == pixels[<<px, py>>]

Surfaces(w, h) == [(0..(w - 1)) \X (0..(h - 1)) -> Colour]

\* line 56: result = []
GcrBegin ==
    /\ pc = "getcontiguousrows"
    /\ result' = << >>
    /\ y' = 0
    /\ pc' = "for_y"
    /\ UNCHANGED <<exc, caller, size, pixels, x, curr_colour, pixel_count>>
    /\ UNCHANGED <<htmlVars, encVars, rgbVars>>

\* GcrForY with the current run kept from the row before.
GcrForYKeepRun ==
    /\ pc = "for_y"
    /\ y < getsize[2]
    /\ x' = 0
    /\ pc' = "for_x"
    /\ UNCHANGED <<exc, caller, size, pixels, y, result, curr_colour, pixel_count>>
    /\ UNCHANGED <<htmlVars, encVars, rgbVars>>

\* lines 57-59: the next row starts with no current colour and no pixels.
GcrForY ==
    /\ pc = "for_y"
    /\ y < getsize[2]
    /\ curr_colour' = None
    /\ pixel_count' = 0
    /\ x' = 0
    /\ pc' = "for_x"
    /\ UNCHANGED <<exc, caller, size, pixels, y, result>>
    /\ UNCHANGED <<htmlVars, encVars, rgbVars>>

\* GcrForX with a run flushed at every pixel, equal colours not merged.
GcrForXNoMerge ==
    /\ pc = "for_x"
    /\ x < getsize[1]
    /\ LET pixel_colour == getpixel(x, y) IN
         /\ result' = IF curr_colour # None
                      THEN Append(result, <<pixel_count, curr_colour>>)
                      ELSE result
         /\ curr_colour' = pixel_colour
         /\ pixel_count' = 1
    /\ x' = x + 1
    /\ UNCHANGED <<pc, exc, caller, size, pixels, y>>
    /\ UNCHANGED <<htmlVars, encVars, rgbVars>>

\* lines 60-68: one pixel of the row.
GcrForX ==
    /\ pc = "for_x"
    /\ x < getsize[1]
    /\ LET pixel_colour == getpixel(x, y) IN
         IF curr_colour # pixel_colour
         THEN /\ result' = IF curr_colour # None
                           THEN Append(result, <<pixel_count, curr_colour>>)
                           ELSE result
              /\ curr_colour' = pixel_colour
              /\ pixel_count' = 1
         ELSE /\ pixel_count' = pixel_count + 1
              /\ UNCHANGED <<result, curr_colour>>
    /\ x' = x + 1
    /\ UNCHANGED <<pc, exc, caller, size, pixels, y>>
    /\ UNCHANGED <<htmlVars, encVars, rgbVars>>

\* GcrRowEnd with the RowDivider put between rows only, not after the last.
GcrRowEndBetweenRows ==
    /\ pc = "for_x"
    /\ x >= getsize[1]
    /\ result' = IF y + 1 < getsize[2]
                 THEN result \o <<(<<pixel_count, curr_colour>>), RowDivider>>
                 ELSE Append(result, <<pixel_count, curr_colour>>)
    /\ y' = y + 1
    /\ pc' = "for_y"
    /\ UNCHANGED <<exc, caller, size, pixels, x, curr_colour, pixel_count>>
    /\ UNCHANGED <<htmlVars, encVars, rgbVars>>

\* lines 69-71: the last run of the row and its RowDivider.
GcrRowEnd ==
    /\ pc = "for_x"
    /\ x >= getsize[1]
    /\ result' = result \o <<(<<pixel_count, curr_colour>>), RowDivider>>
    /\ y' = y + 1
    /\ pc' = "for_y"
    /\ UNCHANGED <<exc, caller, size, pixels, x, curr_colour, pixel_count>>
    /\ UNCHANGED <<htmlVars, encVars, rgbVars>>

\* line 72, and _exec.main handing the result to rowlist_to_html_css.
GcrReturn ==
    /\ pc = "for_y"
    /\ y >= getsize[2]
    /\ rowlist' = result
    /\ pc' = "rowlist_to_html_css"
    /\ UNCHANGED <<exc, caller, gcrVars, encVars, rgbVars>>
    /\ UNCHANGED <<no_css, pixel_size, count, palette, page_rows, html, css,
                   table_unique_id>>


\* ------------------------------------------- __init__.py: rgb_to_html
HexChars == <<"0", "1", "2", "3", "4", "5", "6", "7",
              "8", "9", "a", "b", "c", "d", "e", "f">>

\* hex(n)[2:] for n >= 0: the hexadecimal digits of n, without padding.
RECURSIVE PyHex(_)
PyHex(n) ==
    IF n < 16 THEN <<HexChars[n + 1]>>
    ELSE PyHex(n \div 16) \o <<HexChars[(n % 16) + 1]>>

Max(a, b) == IF a >= b THEN a ELSE b
Min(a, b) == IF a <= b THEN a ELSE b

\* line 105: every channel clamped to 0..255.
Clamp(c) == [i \in 1..Len(c) |-> Min(Max(0, c[i]), 255)]

\* line 107: all(htmlcolour[2*i+1] == htmlcolour[2*i+2] for i in range(3)),
\* evaluated left to right and stopping at the first unequal pair; s[k] with
\* k >= len(s) raises IndexError. Indices are Python's (0-based).
RECURSIVE AllDoubled(_, _)
AllDoubled(s, i) ==
    IF i = 3 THEN "True"
    ELSE IF 2 * i + 2 > Len(s) \/ 2 * i + 3 > Len(s) THEN "IndexError"
    ELSE IF s[2 * i + 2] # s[2 * i + 3] THEN "False"
    ELSE AllDoubled(s, i + 1)

\* lines 99-109. The outcome is [exc, value]: exc is "none" and value the
\* returned string, or exc names the exception raised.
rgb_to_html(c) ==
    IF c = None THEN [exc |-> "TypeError", value |-> << >>]
    ELSE
      LET clamped == Clamp(c)
          full == <<"#">> \o Concat([i \in 1..Len(clamped) |-> PyHex(clamped[i])])
          doubled == AllDoubled(full, 0)
      IN  IF doubled = "IndexError" THEN [exc |-> "IndexError", value |-> << >>]
          ELSE IF doubled = "True"
               THEN [exc |-> "none", value |-> <<"#", full[2], full[4], full[6]>>]
               ELSE [exc |-> "none", value |-> full]

\* A call of rgb_to_html on its own.
RgbToHtmlCall ==
    /\ pc = "rgb_to_html"
    /\ LET r == rgb_to_html(colour) IN
         /\ htmlcolour' = r.value
         /\ exc' = r.exc
         /\ pc' = IF r.exc = "none" THEN "done" ELSE "raised"
    /\ UNCHANGED <<caller, colour, gcrVars, htmlVars, encVars>>


\* --------------------------------------------- __init__.py: _encoding
\* A str argument, and the str line 52 makes of it. "".join(set(...)) keeps
\* one of each character in the iteration order of the set, which the
\* language leaves open: order holds the positions read so far, and a
\* position is fixed when it is first read.
Str(s) == [len |-> Len(s), symbols |-> {s[i] : i \in 1..Len(s)}, order |-> s]
Dedup(a) == [len |-> Cardinality(a.symbols), symbols |-> a.symbols, order |-> << >>]

\* The ways alphabet[0], ..., alphabet[n-1] can read, given the positions
\* already fixed.
Reads(a, n) ==
    {o \in [1..Max(n, Len(a.order)) -> a.symbols] :
        /\ \A i \in 1..Len(a.order) : o[i] = a.order[i]
        /\ \A i, j \in DOMAIN o : i # j => o[i] # o[j]}

\* string.ascii_letters
ascii_letters ==
    <<"a", "b", "c", "d", "e", "f", "g", "h", "i", "j", "k", "l", "m",
      "n", "o", "p", "q", "r", "s", "t", "u", "v", "w", "x", "y", "z",
      "A", "B", "C", "D", "E", "F", "G", "H", "I", "J", "K", "L", "M",
      "N", "O", "P", "Q", "R", "S", "T", "U", "V", "W", "X", "Y", "Z">>

\* _Node.__init__ (lines 11-18). A node is named by its index in nodes; a
\* leaf holds a key, an internal node the list of its subnodes.
Leaf(key) == [leaf |-> TRUE, key |-> key, subnodes |-> << >>, prefix |-> << >>]
Internal(subnodes) ==
    [leaf |-> FALSE, key |-> None, subnodes |-> subnodes, prefix |-> << >>]

\* _Node.prepend_prefix and _Node._sub_prepend_prefix (lines 20-34): the
\* node store after node n and all nodes below it took the prefix.
RECURSIVE prepend_prefix(_, _, _)
RECURSIVE sub_prepend_prefix(_, _, _)
prepend_prefix(ns, n, prefix) ==
    sub_prepend_prefix([ns EXCEPT ![n].prefix = prefix \o @],
                       ns[n].subnodes, prefix)
sub_prepend_prefix(ns, subnodes, prefix) ==
    IF subnodes = << >> THEN ns
    ELSE sub_prepend_prefix(prepend_prefix(ns, subnodes[1], prefix),
                            Tail(subnodes), prefix)

\* What list.sort(key=item[1], reverse=True) does to the list: a stable
\* sort by weight, highest first.
RECURSIVE InsertDesc(_, _)
InsertDesc(sorted, item) ==
    IF sorted = << >> THEN <<item>>
    ELSE IF sorted[1][2] >= item[2]
         THEN <<sorted[1]>> \o InsertDesc(Tail(sorted), item)
         ELSE <<item>> \o sorted
RECURSIVE SortedDesc(_)
SortedDesc(items) ==
    IF items = << >> THEN << >>
    ELSE InsertDesc(SortedDesc(SubSeq(items, 1, Len(items) - 1)),
                    items[Len(items)])

\* line 61: queue = queue.sort(...). list.sort sorts in place and returns
\* None, and None is what queue is bound to.
ListSort(items) == PyNone

\* line 65: queue[:-n] and queue[-n:], with Python's reading of -0 as 0.
AllButLast(s, n) == IF n = 0 THEN << >> ELSE SubSeq(s, 1, Len(s) - n)
LastOnes(s, n) == IF n = 0 THEN s ELSE SubSeq(s, Len(s) - n + 1, Len(s))

\* lines 71-72: the assigned nodes take alphabet[0], alphabet[1], ...
RECURSIVE AssignPrefixes(_, _, _, _)
AssignPrefixes(ns, assigning_nodes, letters, i) ==
    IF i > Len(assigning_nodes) THEN ns
    ELSE AssignPrefixes(prepend_prefix(ns, assigning_nodes[i][1], <<letters[i]>>),
                        assigning_nodes, letters, i + 1)

\* lines 52-58: the alphabet without duplicates, one leaf per key, the queue
\* of (node, weight) pairs and the list of leaves.
EncInit ==
    /\ pc = "_encoding"
    /\ alphabet' = Dedup(alphabet)
    /\ nodes' = [i \in 1..Len(count) |-> Leaf(count[i][1])]
    /\ queue' = PyList([i \in 1..Len(count) |-> <<i, count[i][2]>>])
    /\ leaf_nodes' = [i \in 1..Len(count) |-> i]
    /\ pc' = "while"
    /\ UNCHANGED <<exc, caller, mapping, gcrVars, htmlVars, rgbVars>>

\* lines 60-75: one round of the merge loop. len(queue) on line 63 raises
\* TypeError when queue is None, and alphabet[i] on line 72 IndexError when
\* the alphabet is empty.
MergeRound ==
    /\ pc = "while"
    /\ Len(queue.items) > 1
    /\ LET sorted == ListSort(queue.items) IN
         IF sorted.none
         THEN /\ queue' = sorted
              /\ exc' = "TypeError"
              /\ pc' = "raised"
              /\ UNCHANGED <<alphabet, nodes>>
         ELSE LET split == Len(sorted.items) > alphabet.len
                  rest == IF split THEN AllButLast(sorted.items, alphabet.len)
                          ELSE << >>
                  assigning_nodes ==
                      IF split THEN LastOnes(sorted.items, alphabet.len)
                      ELSE sorted.items
                  new_weight ==
                      SumSeq([i \in 1..Len(assigning_nodes) |-> assigning_nodes[i][2]])
              IN  IF Len(assigning_nodes) > alphabet.len
                  THEN /\ queue' = PyList(rest)
                       /\ exc' = "IndexError"
                       /\ pc' = "raised"
                       /\ UNCHANGED <<alphabet, nodes>>
                  ELSE \E letters \in Reads(alphabet, Len(assigning_nodes)) :
                         /\ alphabet' = [alphabet EXCEPT !.order = letters]
                         /\ nodes' = Append(
                                AssignPrefixes(nodes, assigning_nodes, letters, 1),
                                Internal([i \in 1..Len(assigning_nodes) |->
                                             assigning_nodes[i][1]]))
                         /\ queue' = PyList(Append(rest, <<Len(nodes) + 1, new_weight>>))
                         /\ UNCHANGED <<pc, exc>>
    /\ UNCHANGED <<caller, leaf_nodes, mapping, gcrVars, htmlVars, rgbVars>>

\* lines 77-81: the mapping read from the leaves, once the loop has ended.
RECURSIVE ReadMapping(_, _, _)
ReadMapping(m, ns, leaves) ==
    IF leaves = << >> THEN m
    ELSE ReadMapping(Put(m, ns[leaves[1]].key, ns[leaves[1]].prefix),
                     ns, Tail(leaves))

ReadOut ==
    /\ pc = "while"
    /\ ~(Len(queue.items) > 1)
    /\ mapping' = ReadMapping(<< >>, nodes, leaf_nodes)
    /\ pc' = IF caller = "_to_palette" THEN "_to_palette_return" ELSE "done"
    /\ UNCHANGED <<exc, caller, alphabet, queue, nodes, leaf_nodes>>
    /\ UNCHANGED <<gcrVars, htmlVars, rgbVars>>


\* ------------------------------------------- __init__.py: _to_palette
\* CountRuns with the count of a run stored over the colour's weight
\* instead of added to it.
RECURSIVE CountRunsOverwrite(_, _)
CountRunsOverwrite(cnt, rl) ==
    IF rl = << >> THEN cnt
    ELSE LET item == rl[1] IN
         IF ~IsRowDivider(item)
         THEN CountRunsOverwrite(Put(cnt, item[2], item[1]), Tail(rl))
         ELSE CountRunsOverwrite(cnt, Tail(rl))

\* lines 88-93: the counts of the runs summed per colour; a RowDivider adds
\* nothing.
RECURSIVE CountRuns(_, _)
CountRuns(cnt, rl) ==
    IF rl = << >> THEN cnt
    ELSE LET item == rl[1] IN
         IF ~IsRowDivider(item)
         THEN LET c0 == IF item[2] \notin Keys(cnt) THEN Put(cnt, item[2], 0)
                        ELSE cnt
              IN  CountRuns(Put(c0, item[2], Get(c0, item[2]) + item[1]), Tail(rl))
         ELSE CountRuns(cnt, Tail(rl))

\* ----------------------------------- __init__.py: rowlist_to_html_css
\* lines 127-136: currow is set to [] at the top of every pass, so a run
\* appended to it is gone at the next pass and every RowDivider appends the
\* empty currow of its own pass.
RECURSIVE Regroup(_, _)
Regroup(rows, rl) ==
    IF rl = << >> THEN rows
    ELSE LET currow == << >>
             subrow == rl[1]
         IN  IF subrow = RowDivider
             THEN Regroup(Append(rows, currow), Tail(rl))
             ELSE Regroup(rows, Tail(rl))

\* One line of the HTML text: its tag and the attributes the code formats
\* into it. An absent attribute is << >>, -1 (width, lineheight) or 0
\* (colspan); hasclass tells an absent class from the class "".
Line(tag) ==
    [tag |-> tag, id |-> << >>, hasclass |-> FALSE, class |-> << >>,
     background |-> << >>, width |-> -1, lineheight |-> -1, colspan |-> 0]

\* lines 148-156 and 169-179: the <td> of one run, or the exception raised
\* while formatting it.
Cell(run, nc, ps, pal) ==
    LET cnt == run[1]
        col == run[2]
        span == IF cnt <= 1 THEN 0 ELSE cnt
    IN  IF nc
        THEN LET h == rgb_to_html(col) IN
             [exc |-> h.exc,
              line |-> [Line("td") EXCEPT !.background = h.value,
                                          !.width = cnt * ps,
                                          !.colspan = span]]
        ELSE IF col \notin Keys(pal)
             THEN [exc |-> "KeyError", line |-> Line("td")]
             ELSE [exc |-> "none",
                   line |-> [Line("td") EXCEPT !.hasclass = TRUE,
                                               !.class = Get(pal, col),
                                               !.width = cnt * ps,
                                               !.colspan = span]]

\* lines 147-156 and 169-179: the cells of one row, left to right.
RECURSIVE RowCells(_, _, _, _)
RowCells(row, nc, ps, pal) ==
    IF row = << >> THEN [exc |-> "none", lines |-> << >>]
    ELSE LET c == Cell(row[1], nc, ps, pal) IN
         IF c.exc # "none" THEN [exc |-> c.exc, lines |-> << >>]
         ELSE LET r == RowCells(Tail(row), nc, ps, pal) IN
              [exc |-> r.exc, lines |-> <<c.line>> \o r.lines]

\* lines 145-158 and 167-180: <tr>, the cells and </tr> of every row.
RECURSIVE RowLines(_, _, _, _)
RowLines(rows, nc, ps, pal) ==
    IF rows = << >> THEN [exc |-> "none", lines |-> << >>]
    ELSE LET tr == IF nc THEN [Line("tr") EXCEPT !.lineheight = ps]
                   ELSE Line("tr")
             c == RowCells(rows[1], nc, ps, pal)
         IN  IF c.exc # "none" THEN [exc |-> c.exc, lines |-> << >>]
             ELSE LET r == RowLines(Tail(rows), nc, ps, pal) IN
                  [exc |-> r.exc,
                   lines |-> <<tr>> \o c.lines \o <<Line("/tr")>> \o r.lines]

\* One rule of the CSS text.
TrRule(id, ps) ==
    [selector |-> "tr", id |-> id, class |-> << >>, lineheight |-> ps,
     background |-> << >>]
TdRule(id, cssclass, bg) ==
    [selector |-> "td", id |-> id, class |-> cssclass, lineheight |-> -1,
     background |-> bg]

\* lines 189-190: one background rule per item of the palette.
RECURSIVE PaletteRules(_, _)
PaletteRules(id, pal) ==
    IF pal = << >> THEN [exc |-> "none", rules |-> << >>]
    ELSE LET h == rgb_to_html(pal[1][1]) IN
         IF h.exc # "none" THEN [exc |-> h.exc, rules |-> << >>]
         ELSE LET r == PaletteRules(id, Tail(pal)) IN
              [exc |-> r.exc,
               rules |-> <<TdRule(id, pal[1][2], h.value)>> \o r.rules]

\* line 161: sixteen letters drawn at random; two of the possible draws.
TableIds ==
    {<<"t", "a", "b", "l", "e", "i", "m", "a", "g", "e", "A", "B", "C", "D", "E", "F">>,
     <<"Q", "w", "E", "r", "T", "y", "U", "i", "O", "p", "A", "s", "D", "f", "G", "h">>}

\* The call of rowlist_to_html_css, and line 125 with _to_palette's lines
\* 88-96: the weight table is built and handed to _encoding with the
\* letters as alphabet.
HtmlCall ==
    /\ pc = "rowlist_to_html_css"
    /\ \E nc \in BOOLEAN, ps \in PixelSize :
         /\ no_css' = nc
         /\ pixel_size' = ps
    /\ count' = CountRuns(<< >>, rowlist)
    /\ alphabet' = Str(ascii_letters)
    /\ caller' = "_to_palette"
    /\ pc' = "_encoding"
    /\ UNCHANGED <<exc, rowlist, palette, page_rows, html, css, table_unique_id>>
    /\ UNCHANGED <<queue, nodes, leaf_nodes, mapping, gcrVars, rgbVars>>

\* lines 96 and 125: the mapping comes back as the palette.
ToPaletteReturn ==
    /\ pc = "_to_palette_return"
    /\ palette' = mapping
    /\ pc' = "page_rows"
    /\ UNCHANGED <<exc, caller, rowlist, no_css, pixel_size, count, page_rows,
                   html, css, table_unique_id>>
    /\ UNCHANGED <<gcrVars, encVars, rgbVars>>

\* lines 127-139
PageRows ==
    /\ pc = "page_rows"
    /\ page_rows' = Regroup(<< >>, rowlist)
    /\ html' = << >>
    /\ css' = << >>
    /\ pc' = "emit"
    /\ UNCHANGED <<exc, caller, rowlist, no_css, pixel_size, count, palette,
                   table_unique_id>>
    /\ UNCHANGED <<gcrVars, encVars, rgbVars>>

\* lines 142-159 and 192: the table with inline styles, and no CSS.
EmitInline ==
    /\ pc = "emit"
    /\ no_css
    /\ LET r == RowLines(page_rows, TRUE, pixel_size, palette) IN
         IF r.exc # "none"
         THEN /\ exc' = r.exc
              /\ pc' = "raised"
              /\ UNCHANGED html
         ELSE /\ html' = <<Line("table")>> \o r.lines \o <<Line("/table")>>
              /\ pc' = "done"
              /\ UNCHANGED exc
    /\ UNCHANGED <<caller, rowlist, no_css, pixel_size, count, palette,
                   page_rows, css, table_unique_id>>
    /\ UNCHANGED <<gcrVars, encVars, rgbVars>>

\* lines 160-192: the table with an id and classes, and the CSS rules.
EmitCss ==
    /\ pc = "emit"
    /\ ~no_css
    /\ \E id \in TableIds :
         LET r == RowLines(page_rows, FALSE, pixel_size, palette)
             p == PaletteRules(id, palette)
         IN  /\ table_unique_id' = id
             /\ IF r.exc # "none" \/ p.exc # "none"
                THEN /\ exc' = IF r.exc # "none" THEN r.exc ELSE p.exc
                     /\ pc' = "raised"
                     /\ UNCHANGED <<html, css>>
                ELSE /\ html' = <<[Line("table") EXCEPT !.id = id]>>
                                \o r.lines \o <<Line("/table")>>
                     /\ css' = <<TrRule(id, pixel_size)>> \o p.rules
                     /\ pc' = "done"
                     /\ UNCHANGED exc
    /\ UNCHANGED <<caller, rowlist, no_css, pixel_size, count, palette, page_rows>>
    /\ UNCHANGED <<gcrVars, encVars, rgbVars>>

\* ------------------------------------------------------ specifications
Blank ==
    /\ exc = "none"
    /\ caller = "none"
    /\ y = 0 /\ x = 0 /\ curr_colour = None /\ pixel_count = 0
    /\ result = << >>
    /\ count = << >> /\ palette = << >> /\ page_rows = << >>
    /\ html = << >> /\ css = << >> /\ table_unique_id = << >>
    /\ queue = PyList(<< >>) /\ nodes = << >> /\ leaf_nodes = << >>
    /\ mapping = << >>
    /\ htmlcolour = << >>

\* _exec.main: a pixel surface is read into runs and the runs are rendered.
Init ==
    /\ pc = "getcontiguousrows"
    /\ \E w \in 0..MaxWidth, h \in 0..MaxHeight :
         /\ size = <<w, h>>
         /\ pixels \in Surfaces(w, h)
    /\ rowlist = << >> /\ no_css = FALSE /\ pixel_size = 3
    /\ alphabet = Str(<< >>)
    /\ colour = None
    /\ Blank

Next ==
    \/ GcrBegin \/ GcrForY \/ GcrForX \/ GcrRowEnd \/ GcrReturn
    \/ HtmlCall \/ EncInit \/ MergeRound \/ ReadOut \/ ToPaletteReturn
    \/ PageRows \/ EmitInline \/ EmitCss

Spec == Init /\ [][Next]_vars

\* rowlist_to_html_css called on any sequence of runs and RowDividers.
RECURSIVE SeqsUpTo(_, _)
SeqsUpTo(S, n) ==
    IF n = 0 THEN {<< >>}
    ELSE LET shorter == SeqsUpTo(S, n - 1) IN
         shorter \cup {Append(s, e) : s \in {t \in shorter : Len(t) = n - 1}, e \in S}

Runs == {<<c, col>> : c \in 1..MaxCount, col \in Colour}

InitRowlist ==
    /\ pc = "rowlist_to_html_css"
    /\ rowlist \in SeqsUpTo(Runs \cup {RowDivider}, MaxItems)
    /\ size = <<0, 0>> /\ pixels \in Surfaces(0, 0)
    /\ no_css = FALSE /\ pixel_size = 3
    /\ alphabet = Str(<< >>)
    /\ colour = None
    /\ Blank

NextRowlist ==
    \/ HtmlCall \/ EncInit \/ MergeRound \/ ReadOut \/ ToPaletteReturn
    \/ PageRows \/ EmitInline \/ EmitCss

SpecRowlist == InitRowlist /\ [][NextRowlist]_vars

\* _encoding called on any weight table and any alphabet.
Injective(s) == \A i, j \in 1..Len(s) : i # j => s[i] # s[j]

WeightTables ==
    {t \in SeqsUpTo(KeyColour \X (1..MaxWeight), MaxKeys) :
        Injective([i \in 1..Len(t) |-> t[i][1]])}

InitEncoding ==
    /\ pc = "_encoding"
    /\ count \in WeightTables
    /\ \E s \in SeqsUpTo(Symbol, MaxAlphabetLen) : alphabet = Str(s)
    /\ exc = "none" /\ caller = "none"
    /\ size = <<0, 0>> /\ pixels \in Surfaces(0, 0)
    /\ y = 0 /\ x = 0 /\ curr_colour = None /\ pixel_count = 0
    /\ result = << >> /\ rowlist = << >> /\ no_css = FALSE /\ pixel_size = 3
    /\ palette = << >> /\ page_rows = << >>
    /\ html = << >> /\ css = << >> /\ table_unique_id = << >>
    /\ queue = PyList(<< >>) /\ nodes = << >> /\ leaf_nodes = << >>
    /\ mapping = << >>
    /\ colour = None /\ htmlcolour = << >>

NextEncoding == EncInit \/ MergeRound \/ ReadOut

SpecEncoding == InitEncoding /\ [][NextEncoding]_vars

\* rgb_to_html called on any triple of integers.
InitRgb ==
    /\ pc = "rgb_to_html"
    /\ colour \in Channel \X Channel \X Channel
    /\ size = <<0, 0>> /\ pixels \in Surfaces(0, 0)
    /\ rowlist = << >> /\ no_css = FALSE /\ pixel_size = 3
    /\ alphabet = Str(<< >>)
    /\ Blank

NextRgb == RgbToHtmlCall

SpecRgb == InitRgb /\ [][NextRgb]_vars


\* ------------------------------------------------------------- properties
Returned == pc \in {"done", "raised"}
AfterGcr == pc \notin {"getcontiguousrows", "for_y", "for_x"}

NumDividers(r) == Cardinality({i \in 1..Len(r) : r[i] = RowDivider})

\* The runs before each RowDivider of r, one sequence per RowDivider.
RECURSIVE SplitAtDividers(_, _)
SplitAtDividers(r, cur) ==
    IF r = << >> THEN << >>
    ELSE IF r[1] = RowDivider
         THEN <<cur>> \o SplitAtDividers(Tail(r), << >>)
         ELSE SplitAtDividers(Tail(r), Append(cur, r[1]))

\* A run written out as count copies of its colour, and a row of runs.
RECURSIVE ExpandRow(_)
ExpandRow(row) ==
    IF row = << >> THEN << >>
    ELSE [i \in 1..row[1][1] |-> row[1][2]] \o ExpandRow(Tail(row))

PixelRow(py) == [i \in 1..size[1] |-> getpixel(i - 1, py)]

IsPrefix(a, b) == Len(a) <= Len(b) /\ SubSeq(b, 1, Len(a)) = a

\* C1: for a weight table with at least one key and an alphabet of at least
\* two unique symbols, _encoding returns a mapping with exactly one entry per
\* key, every code a non-empty string over the alphabet, and no code a prefix
\* of (or equal to) the code of another key.
C1_PrefixFreeMapping ==
    (Returned /\ Len(count) >= 1 /\ Cardinality(alphabet.symbols) >= 2) =>
        /\ pc = "done"
        /\ Len(mapping) = Len(count)
        /\ Keys(mapping) = Keys(count)
        /\ \A i \in 1..Len(mapping) :
             /\ mapping[i][2] # << >>
             /\ \A k \in 1..Len(mapping[i][2]) : mapping[i][2][k] \in alphabet.symbols
        /\ \A i, j \in 1..Len(mapping) :
             i # j => ~IsPrefix(mapping[i][2], mapping[j][2])

\* C2: the result of getcontiguousrows holds exactly one RowDivider per row,
\* each directly after the runs of its row: after y rows there are y
\* RowDividers, the returned sequence holds height of them, a non-empty
\* result ends with a RowDivider, and every RowDivider follows a run (never
\* the start of the sequence or another RowDivider).
C2_OneDividerPerRow ==
    /\ pc \in {"for_y", "for_x"} => NumDividers(result) = y
    /\ AfterGcr =>
         /\ NumDividers(result) = size[2]
         /\ result # << >> => result[Len(result)] = RowDivider
    /\ \A i \in 1..Len(result) :
         result[i] = RowDivider => i > 1 /\ result[i - 1] # RowDivider

C2_Witness ==
    /\ AfterGcr
    /\ size = <<3, 2>>
    /\ NumDividers(result) = 2
    /\ Len(result) = 6
    /\ result[Len(result)] = RowDivider

\* C3: splitting the result of getcontiguousrows at the RowDividers and
\* writing every run of row y out as count copies of its colour gives the
\* pixels getpixel(0, y), ..., getpixel(width-1, y) of row y, for every row.
C3_RoundTrip ==
    AfterGcr =>
        LET rows == SplitAtDividers(result, << >>) IN
        /\ Len(rows) = size[2]
        /\ \A py \in 0..(size[2] - 1) : ExpandRow(rows[py + 1]) = PixelRow(py)

C3_Witness ==
    /\ AfterGcr
    /\ size = <<3, 2>>
    /\ \E i \in 1..Len(result) : result[i] # RowDivider /\ result[i][1] = 2
    /\ pixels[<<2, 0>>] = pixels[<<0, 1>>]
    /\ pixels[<<0, 0>>] # pixels[<<2, 0>>]
    /\ ExpandRow(SplitAtDividers(result, << >>)[2]) = PixelRow(1)

\* The <td> lines between each <tr> and its </tr>, one sequence per <tr>.
RECURSIVE HtmlRows(_, _)
HtmlRows(lines, cur) ==
    IF lines = << >> THEN << >>
    ELSE IF lines[1].tag = "/tr"
         THEN <<cur>> \o HtmlRows(Tail(lines), << >>)
         ELSE IF lines[1].tag = "td"
              THEN HtmlRows(Tail(lines), Append(cur, lines[1]))
              ELSE HtmlRows(Tail(lines), cur)

NumTags(lines, tag) == Cardinality({i \in 1..Len(lines) : lines[i].tag = tag})

\* C4: rowlist_to_html_css emits one table with one <tr> per RowDivider and,
\* in the <tr> of row y, one <td> per run of row y from left to right, of
\* width count*pixel_size and with colspan = count exactly when count > 1.
C4_OneCellPerRun ==
    pc = "done" =>
        LET rows == SplitAtDividers(rowlist, << >>)
            trs == HtmlRows(html, << >>)
        IN  /\ NumTags(html, "table") = 1
            /\ NumTags(html, "tr") = NumDividers(rowlist)
            /\ Len(trs) = Len(rows)
            /\ \A r \in 1..Len(rows) :
                 /\ Len(trs[r]) = Len(rows[r])
                 /\ \A k \in 1..Len(rows[r]) :
                      /\ trs[r][k].width = rows[r][k][1] * pixel_size
                      /\ trs[r][k].colspan =
                           IF rows[r][k][1] > 1 THEN rows[r][k][1] ELSE 0

\* C5: with an alphabet of fewer than two unique symbols _encoding ends in a
\* configuration error raised before any node is merged, and never returns a
\* mapping.
C5_SmallAlphabetRejected ==
    (Returned /\ Cardinality(alphabet.symbols) < 2) =>
        /\ pc = "raised"
        /\ exc = "ConfigurationError"
        /\ \A n \in 1..Len(nodes) : nodes[n].leaf

\* C6: for a weight table with exactly one colour and an alphabet of at least
\* two unique symbols, _encoding returns a mapping that gives the colour a
\* code of length exactly 1.
C6_SingleKeyOneChar ==
    (Returned /\ Len(count) = 1 /\ Cardinality(alphabet.symbols) >= 2) =>
        /\ pc = "done"
        /\ Len(mapping) = 1
        /\ mapping[1][1] = count[1][1]
        /\ Len(mapping[1][2]) = 1


\* C7: an empty image (no rows, or no columns) gives the empty run sequence,
\* and rowlist_to_html_css on it returns a table without rows and raises
\* nothing.
C7_EmptyImage ==
    (size[1] = 0 \/ size[2] = 0) =>
        /\ AfterGcr => result = << >>
        /\ pc # "raised"
        /\ pc = "done" => NumTags(html, "table") = 1 /\ NumTags(html, "tr") = 0

\* The colour text the documentation of rgb_to_html describes: every channel
\* clamped and written as two hexadecimal digits, shortened to one digit per
\* channel exactly when each channel's two digits are equal.
Hex2(n) == <<HexChars[(n \div 16) + 1], HexChars[(n % 16) + 1]>>
ClaimedHtmlColour(c) ==
    LET k == [i \in 1..3 |-> Min(Max(0, c[i]), 255)]
        full == <<"#">> \o Hex2(k[1]) \o Hex2(k[2]) \o Hex2(k[3])
    IN  IF \A i \in 1..3 : k[i] \div 16 = k[i] % 16
        THEN <<"#", full[2], full[4], full[6]>>
        ELSE full

\* C8: rgb_to_html raises nothing and returns '#' and the two-digit lowercase
\* hex of each clamped channel, or the form '#rgb' exactly when the two
\* digits of every channel are equal.
C8_RgbToHtml ==
    pc # "rgb_to_html" => exc = "none" /\ htmlcolour = ClaimedHtmlColour(colour)

RunColours(rl) == {rl[i][2] : i \in {j \in 1..Len(rl) : rl[j] # RowDivider}}
WeightOf(rl, k) ==
    SumSeq([i \in 1..Len(rl) |->
               IF rl[i] # RowDivider /\ rl[i][2] = k THEN rl[i][1] ELSE 0])

\* C9: the weight table _to_palette builds has exactly the colours of the
\* runs as keys, one entry each, and for each colour the sum of the counts of
\* its runs over all rows; RowDividers add nothing and every weight is
\* positive.
C9_WeightTable ==
    pc # "rowlist_to_html_css" =>
        /\ Keys(count) = RunColours(rowlist)
        /\ Injective([i \in 1..Len(count) |-> count[i][1]])
        /\ \A i \in 1..Len(count) :
             /\ count[i][2] = WeightOf(rowlist, count[i][1])
             /\ count[i][2] > 0

C9_Witness ==
    /\ pc = "_encoding"
    /\ Len(count) = 2
    /\ count[1][2] = 3
    /\ Len(rowlist) = 4
    /\ rowlist[2] = RowDivider

\* Every row of the run sequence ends with a RowDivider and has a run.
WellFormed(rl) ==
    /\ rl # << >> => rl[Len(rl)] = RowDivider
    /\ \A i \in 1..Len(rl) : rl[i] = RowDivider => i > 1 /\ rl[i - 1] # RowDivider

\* C10: with no_css, for a well-formed run sequence of any number of colours,
\* rowlist_to_html_css returns the empty stylesheet and HTML without a class
\* attribute, every cell carrying its width and background inline.
C10_InlineMode ==
    (Returned /\ no_css /\ WellFormed(rowlist)) =>
        /\ pc = "done"
        /\ css = << >>
        /\ \A i \in 1..Len(html) :
             /\ ~html[i].hasclass
             /\ html[i].tag = "td" => html[i].width >= 0 /\ html[i].background # << >>


\* The number of background rules of the stylesheet for the class k.
NumTdRules(rules, k) ==
    Cardinality({i \in 1..Len(rules) :
                    rules[i].selector = "td" /\ rules[i].class = k})

\* C11: without no_css, for a well-formed run sequence, the call returns;
\* every emitted cell has as class the code the palette gives the colour of
\* its run; the stylesheet is one row-height rule and one background rule
\* per colour of the run sequence, all scoped to the id of the <table>.
C11_CssMode ==
    (Returned /\ ~no_css /\ WellFormed(rowlist)) =>
        /\ pc = "done"
        /\ LET rows == SplitAtDividers(rowlist, << >>)
               trs == HtmlRows(html, << >>)
           IN  \A r \in 1..Len(trs) : \A k \in 1..Len(trs[r]) :
                 /\ r <= Len(rows) /\ k <= Len(rows[r])
                 /\ trs[r][k].hasclass
                 /\ trs[r][k].class = Get(palette, rows[r][k][2])
        /\ html[1].tag = "table" /\ html[1].id = table_unique_id
        /\ Len(css) = 1 + Cardinality(RunColours(rowlist))
        /\ css[1].selector = "tr" /\ css[1].lineheight = pixel_size
        /\ \A i \in 1..Len(css) : css[i].id = table_unique_id
        /\ Keys(palette) = RunColours(rowlist)
        /\ \A c \in RunColours(rowlist) : NumTdRules(css, Get(palette, c)) = 1

\* C12: on a surface of width >= 1 every run of the result has count >= 1,
\* and two runs next to each other in a row never have the same colour.
C12_MaximalRuns ==
    size[1] >= 1 =>
        \A i \in 1..Len(result) :
            result[i] # RowDivider =>
                /\ result[i][1] >= 1
                /\ (i < Len(result) /\ result[i + 1] # RowDivider) =>
                       result[i][2] # result[i + 1][2]

C12_Witness ==
    /\ AfterGcr
    /\ size = <<3, 2>>
    /\ Len(result) = 7
    /\ result[1][1] = 1 /\ result[2][1] = 1 /\ result[3][1] = 1
    /\ result[4] = RowDivider
    /\ result[5][1] = 2 /\ result[6][1] = 1

\* C13: for a weight table of at least two keys and an alphabet of at least
\* two unique symbols the merge loop of _encoding ends normally: the queue
\* comes down to exactly one (node, weight) pair, whose weight is the sum of
\* all weights, and the mapping is read out and returned.
C13_MergeLoopEnds ==
    (Returned /\ Len(count) >= 2 /\ Cardinality(alphabet.symbols) >= 2) =>
        /\ pc = "done"
        /\ exc = "none"
        /\ ~queue.none
        /\ Len(queue.items) = 1
        /\ queue.items[1][2] = SumSeq([i \in 1..Len(count) |-> count[i][2]])
        /\ Len(mapping) = Len(count)

=============================================================================
